---- MODULE Spec2Model ----
(***************************************************************************)
(* Event & participation manager of the football bot (src/bot.py).         *)
(*                                                                         *)
(* State: the two SQLite tables (events, players), the in-memory           *)
(* APScheduler one-shot jobs, the join keyboards posted to the chat, and   *)
(* the wall clock.  Every database helper of bot.py opens its own          *)
(* connection, runs its statements inside the implicit transaction that    *)
(* Python's sqlite3 opens before the first DML statement, and commits at   *)
(* the end; SQLite admits one writer at a time, so a helper's statements   *)
(* take effect together and a helper is one step of the model.  The        *)
(* specifications SpecRace and SpecAdmin take the helpers and commands     *)
(* apart, statement by statement, with the lock and the transaction.       *)
(*                                                                         *)
(* Time: a naive datetime is an integer count of clock readings since a    *)
(* Monday 00:00:00.  SubPerSec readings make one second.                   *)
(***************************************************************************)
EXTENDS Integers, Sequences, FiniteSets, TLC

VARIABLES
    clock,      \* the wall clock, UTC, in clock readings
    hostOffset, \* UTC offset (hours) of the host's local time zone
    events,     \* table events: set of rows (id is the primary key)
    players,    \* table players: sequence of rows in rowid (insertion) order
    jobs,       \* pending one-shot reminder jobs of the scheduler, in add order
    keyboards,  \* event ids whose join keyboard was posted to the chat
    latest,     \* per (event id, user): the user's latest RSVP action on it
    last,       \* the most recent handler invocation and its outcome
    calls       \* handler invocations suspended at an await, between two
                \* database statements

vars == <<clock, hostOffset, events, players, jobs, keyboards, latest, last, calls>>

----------------------------------------------------------------------------
(* Bounds of the model *)

SubPerSec == 2      \* clock readings per second
MaxFine == 1        \* clock readings explored after each hour mark
LastDay == 8        \* the last day the clock may reach
MaxCreated == 2     \* event ids ever created
MaxRows == 2        \* rows the players table may hold at once
MaxJobs == 1        \* pending reminder jobs
MaxCalls == 2       \* handler invocations suspended at once
MaxPending == 1     \* /set_place and /set_time commands suspended at once

(* Program constants *)

TIMEZONE_SHIFT == 4
DEFAULT_PLACE == "Chikovani St."
ADMIN_IDS == {1969502668, 192472924}
GameHour == 21
ReminderHours == 3
Capacity == 20

Sec == SubPerSec
Minute == 60 * Sec
Hour == 60 * Minute
Day == 24 * Hour

----------------------------------------------------------------------------
(* datetime helpers *)

timedelta(days, hours) == days * Day + hours * Hour

\* datetime.weekday(): 0 = Monday ... 6 = Sunday
weekday(dt) == (dt \div Day) % 7

\* dt.replace(hour=h, minute=0, second=0, microsecond=0)
replace(dt, h) == (dt \div Day) * Day + h * Hour

\* datetime.utcnow()
utcnow == clock

\* datetime.now(): naive local time of the host
now == clock + hostOffset * Hour

\* naive_dt.timestamp(): POSIX time of a naive host-local datetime
timestamp(dt) == dt - hostOffset * Hour

\* SQLite CURRENT_TIMESTAMP: UTC, whole seconds
CURRENT_TIMESTAMP == clock \div Sec

\* datetime.isoformat(): "YYYY-MM-DDTHH:MM:SS", with ".ffffff" appended only
\* when the sub-second part is not zero.  A text is a sequence of fixed-width
\* fields, so comparing fields in order is comparing characters in order.
isoformat(dt) ==
    LET d == dt \div Day
        h == (dt % Day) \div Hour
        m == (dt % Hour) \div Minute
        s == (dt % Minute) \div Sec
        u == dt % Sec
    IN  IF u = 0 THEN <<d, h, m, s>> ELSE <<d, h, m, s, u>>

\* datetime.fromisoformat()
fromisoformat(t) ==
    t[1] * Day + t[2] * Hour + t[3] * Minute + t[4] * Sec
        + (IF Len(t) > 4 THEN t[5] ELSE 0)

\* SQLite's comparison of two TEXT values (BINARY collation: memcmp, and the
\* shorter of two texts with a common prefix is the smaller)
RECURSIVE TextLess(_, _)
TextLess(a, b) ==
    IF b = <<>> THEN FALSE
    ELSE IF a = <<>> THEN TRUE
    ELSE IF Head(a) # Head(b) THEN Head(a) < Head(b)
    ELSE TextLess(Tail(a), Tail(b))

\* "time > ?" in place of "time >= ?"
TextGreater(a, b) == TextLess(b, a)

TextGeq(a, b) == ~TextLess(a, b)

----------------------------------------------------------------------------
(* Inputs *)

\* Telegram users pressing buttons and sending commands: an admin and a
\* non-admin.
Users == {1969502668, 7}

\* callback.from_user: username (None is "") and "first last".strip()
username(u) == IF u = 1969502668 THEN "alex" ELSE ""
full_name(u) == IF u = 1969502668 THEN "Alex S" ELSE "Bob"

\* The buttons of join_keyboard: callback data join_<id>_yes, join_<id>_no,
\* extra_<id>_1, extra_<id>_2, extra_<id>_3, as (action, argument)
Buttons ==
    {<<"join", "yes">>, <<"join", "no">>,
     <<"extra", 1>>, <<"extra", 2>>, <<"extra", 3>>}

\* Callback data no button of join_keyboard carries: callbacks parses whatever
\* data the callback query brings, here extra_<id>_-1
ForgedData == {<<"extra", 0 - 1>>}

\* The callback data of the racing presses: Going, Not going, +1 and the
\* forged one
CallbackData == {<<"join", "yes">>, <<"join", "no">>, <<"extra", 1>>} \cup ForgedData

\* The first clock reading explored: Wednesday 17:00:00 UTC, which is the
\* cron time Wednesday 21:00:00 in Tbilisi
StartClock == timedelta(2, 17)

\* Datetimes an admin types after /addevent (strptime "%Y-%m-%d %H:%M"):
\* the cron Wednesday 21:00 itself, the day before and the day after
EventTimes == {timedelta(1, 21), timedelta(2, 21), timedelta(3, 21)}

\* The datetime typed where its value does not matter
GameTime == timedelta(3, 21)

\* The users who send admin commands
Admins == Users \cap ADMIN_IDS

HostOffsets == {0, TIMEZONE_SHIFT}

\* The limits get_upcoming_events is called with (1 by get_nearest_event, its
\* default 10, 20 by /events), and 2
Limits == {1, 2, 10, 20}

\* No event id (None)
NoEvent == 0 - 1

\* An id typed after /delevent that no event ever had
UnknownId == 0

\* The text typed after /set_place; "" is the command without an argument
Places == {"Dinamo Arena", ""}

\* What is typed after /set_time: a datetime, or text strptime rejects
Malformed == 0 - 2

TimeArgs == {timedelta(1, 21), timedelta(4, 21), Malformed}

----------------------------------------------------------------------------
(* Database helpers *)

EventIds(ev) == {r.id : r \in ev}

\* create_event: the id is str(datetime.now().timestamp()); str of a float is
\* one-to-one, so the id is modelled by the POSIX time itself
NewEventId == timestamp(now)

\* the row INSERT INTO events (id, time, place, is_active) VALUES (?,?,?,1)
\* stores; created_at takes its default
EventRow(id, event_dt, place) ==
    [id |-> id, time |-> isoformat(event_dt), place |-> place,
     created_at |-> CURRENT_TIMESTAMP, is_active |-> 1]

\* id TEXT PRIMARY KEY: the INSERT raises IntegrityError on a duplicate id
InsertViolatesKey(ev, id) == id \in EventIds(ev)

create_event(ev, event_dt, place) ==
    ev \cup {EventRow(NewEventId, event_dt, place)}

\* delete_event: both DELETEs, then commit
delete_event_players(pl, event_id) ==
    SelectSeq(pl, LAMBDA r : r.event_id # event_id)

delete_event_events(ev, event_id) == {r \in ev : r.id # event_id}

\* get_event
get_event(ev, event_id) == {r \in ev : r.id = event_id}

\* upsert_participation: DELETE the user's row of the event, INSERT the new
\* one (joined_at takes its default), commit
PlayerRow(event_id, user_id, going, extra_count) ==
    [event_id |-> event_id, user_id |-> user_id,
     username |-> username(user_id), full_name |-> full_name(user_id),
     extra_count |-> extra_count, going |-> IF going THEN 1 ELSE 0,
     joined_at |-> CURRENT_TIMESTAMP]

\* upsert_participation without its DELETE
upsert_no_delete(pl, event_id, user_id, going, extra_count) ==
    Append(pl, PlayerRow(event_id, user_id, going, extra_count))

\* upsert_participation patching the old row: the extra counts add up
upsert_accumulate(pl, event_id, user_id, going, extra_count) ==
    LET mine == SelectSeq(pl, LAMBDA r : r.event_id = event_id /\ r.user_id = user_id)
        sum == IF mine = <<>> THEN extra_count
               ELSE mine[1].extra_count + extra_count
    IN  Append(SelectSeq(pl, LAMBDA r : ~(r.event_id = event_id /\ r.user_id = user_id)),
               PlayerRow(event_id, user_id, going, sum))

\* upsert_participation with its two statements swapped: INSERT, then DELETE
upsert_insert_then_delete(pl, event_id, user_id, going, extra_count) ==
    SelectSeq(Append(pl, PlayerRow(event_id, user_id, going, extra_count)),
              LAMBDA r : ~(r.event_id = event_id /\ r.user_id = user_id))

\* upsert_participation that keeps the old row's extra count when it is given
\* none
upsert_keep_extra(pl, event_id, user_id, going, extra_count) ==
    LET mine == SelectSeq(pl, LAMBDA r : r.event_id = event_id /\ r.user_id = user_id)
        kept == IF extra_count = 0 /\ mine # <<>> THEN mine[1].extra_count
                ELSE extra_count
    IN  Append(SelectSeq(pl, LAMBDA r : ~(r.event_id = event_id /\ r.user_id = user_id)),
               PlayerRow(event_id, user_id, going, kept))

upsert_participation(pl, event_id, user_id, going, extra_count) ==
    Append(SelectSeq(pl, LAMBDA r : ~(r.event_id = event_id /\ r.user_id = user_id)),
           PlayerRow(event_id, user_id, going, extra_count))

\* The orders a SELECT ... ORDER BY key may return the rows of sequence rows
\* in: every arrangement that is non-decreasing in the key.  SQL leaves the
\* order of rows with equal keys open.  less[i, j] says that the key of
\* rows[i] is smaller than the key of rows[j].
OrderedBy(rows, less) ==
    LET n == Len(rows)
        Perms == {p \in [1..n -> 1..n] :
                    /\ \A i, j \in 1..n : i # j => p[i] # p[j]
                    /\ \A i, j \in 1..n : i < j => ~less[p[j], p[i]]}
    IN  {[i \in 1..n |-> rows[p[i]]] : p \in Perms}

\* A set as a sequence, in some order
RECURSIVE SetToSeq(_)
SetToSeq(S) ==
    IF S = {} THEN <<>>
    ELSE LET x == CHOOSE y \in S : TRUE IN <<x>> \o SetToSeq(S \ {x})

\* LIMIT n: a negative n is no limit
Limit(rows, n) ==
    IF n < 0 \/ n >= Len(rows) THEN rows ELSE SubSeq(rows, 1, n)

\* get_upcoming_events: SELECT id, time, place FROM events WHERE is_active=1
\* AND time >= ? ORDER BY time ASC LIMIT ?, with ? the isoformat of local now;
\* the set of results the query may return
get_upcoming_events(ev, limit) ==
    LET now_local == utcnow + timedelta(0, TIMEZONE_SHIFT)
        bound == isoformat(now_local)
        hits == {r \in ev : r.is_active = 1 /\ TextGeq(r.time, bound)}
        found == SetToSeq(hits)
        ByTime == [i, j \in 1..Len(found) |-> TextLess(found[i].time, found[j].time)]
        Row(r) == [id |-> r.id, time |-> fromisoformat(r.time), place |-> r.place]
    IN  {[i \in 1..Len(Limit(rows, limit)) |-> Row(Limit(rows, limit)[i])] :
         rows \in OrderedBy(found, ByTime)}

\* get_nearest_event: events[0] if events else None (None is <<>>), for each
\* result the query may return
get_nearest_event(ev) ==
    {IF r = <<>> THEN <<>> ELSE <<r[1]>> : r \in get_upcoming_events(ev, 1)}

\* list_players: SELECT username, full_name, extra_count, going FROM players
\* WHERE event_id=? ORDER BY joined_at; the set of results it may return
list_players(pl, event_id) ==
    LET found == SelectSeq(pl, LAMBDA r : r.event_id = event_id)
        ByJoined == [i, j \in 1..Len(found) |-> found[i].joined_at < found[j].joined_at]
    IN  OrderedBy(found, ByJoined)

----------------------------------------------------------------------------
(* Rendering *)

\* fmt_dt: strftime("%a, %d %b %H:%M"): weekday, day, hour, minute
fmt_dt(dt) ==
    <<weekday(dt), dt \div Day, (dt % Day) \div Hour, (dt % Hour) \div Minute>>

\* name = "@username" if username else (full_name or "No name")
DisplayName(r) ==
    IF r.username # "" THEN <<"@", r.username>>
    ELSE IF r.full_name # "" THEN <<r.full_name>>
    ELSE <<"No name">>

RECURSIVE SumExtra(_)
SumExtra(rows) ==
    IF rows = <<>> THEN 0 ELSE Head(rows).extra_count + SumExtra(Tail(rows))

\* A head count that adds the guests
GoingCount_with_guests(going) == Len(going) + SumExtra(going)

\* len(going) of the "Going (n/20)" line
GoingCount(going) == Len(going)

\* The text render_event builds from the event row and one result of
\* list_players, as its sequence of lines
RenderLines(e, rows) ==
    LET going == SelectSeq(rows, LAMBDA r : r.going = 1)
        not_going == SelectSeq(rows, LAMBDA r : r.going = 0)
    IN  << <<"Game">>, <<"time", fmt_dt(fromisoformat(e.time))>>,
           <<"place", e.place>>, <<"">>,
           <<"Going", GoingCount(going), Capacity>> >>
        \o (IF going # <<>>
            THEN [i \in 1..Len(going) |->
                    <<"yes", DisplayName(going[i]), going[i].extra_count>>]
            ELSE << <<"Nobody yet">> >>)
        \o << <<"">>, <<"Not going", Len(not_going)>> >>
        \o (IF not_going # <<>>
            THEN [i \in 1..Len(not_going) |->
                    <<"no", DisplayName(not_going[i])>>]
            ELSE << <<"Nobody declined.">> >>)

\* render_event: the texts it may return
render_event(ev, pl, event_id) ==
    IF get_event(ev, event_id) = {}
    THEN {<< <<"Event not found.">> >>}
    ELSE {RenderLines(CHOOSE e \in get_event(ev, event_id) : TRUE, rows) :
            rows \in list_players(pl, event_id)}

----------------------------------------------------------------------------
(* Handlers *)

\* What `last` keeps of a handler invocation: the handler, the event id and
\* user it was about, an RSVP's going and extra count, whether it went
\* through, and the (going, extra_count) of the row an RSVP replaced
Record(op, ev, user, going, extra, ok, old) ==
    [op |-> op, ev |-> ev, user |-> user, going |-> going, extra |-> extra,
     ok |-> ok, old |-> old]

Started == Record("start", NoEvent, 0, FALSE, 0, TRUE, <<>>)

Init ==
    /\ clock = StartClock
    /\ hostOffset = 0
    /\ events = {}
    /\ players = <<>>
    /\ jobs = <<>>
    /\ keyboards = {}
    /\ latest = {}
    /\ last = Started
    /\ calls = {}

\* Time passes: to the next clock reading
Tick ==
    /\ clock % Hour < MaxFine
    /\ clock' = clock + 1
    /\ UNCHANGED <<hostOffset, events, players, jobs, keyboards, latest, last, calls>>

\* Time passes: a whole day
TickDay ==
    /\ clock \div Day < LastDay
    /\ clock' = clock + Day
    /\ UNCHANGED <<hostOffset, events, players, jobs, keyboards, latest, last, calls>>

\* The model explores MaxCreated event ids
MayCreate == Cardinality(keyboards \cup {NewEventId}) <= MaxCreated

\* cmd_addevent: /addevent YYYY-MM-DD HH:MM from user u
AddEvent(u, local_dt) ==
    /\ MayCreate
    /\ IF u \notin ADMIN_IDS
       THEN /\ last' = Record("addevent", NoEvent, u, FALSE, 0, FALSE, <<>>)
            /\ UNCHANGED <<events, keyboards>>
       ELSE IF InsertViolatesKey(events, NewEventId)
       THEN /\ last' = Record("addevent", NewEventId, u, FALSE, 0, FALSE, <<>>)
            /\ UNCHANGED <<events, keyboards>>
       ELSE /\ events' = create_event(events, local_dt, DEFAULT_PLACE)
            /\ keyboards' = keyboards \cup {NewEventId}
            /\ last' = Record("addevent", NewEventId, u, FALSE, 0, TRUE, <<>>)
    /\ UNCHANGED <<clock, hostOffset, players, jobs, latest, calls>>

\* cmd_delevent: /delevent EVENT_ID from user u
DelEvent(u, event_id) ==
    /\ IF u \notin ADMIN_IDS
       THEN /\ last' = Record("delevent", event_id, u, FALSE, 0, FALSE, <<>>)
            /\ UNCHANGED <<events, players, latest>>
       ELSE /\ players' = delete_event_players(players, event_id)
            /\ events' = delete_event_events(events, event_id)
            /\ latest' = {l \in latest : l.ev # event_id}
            /\ last' = Record("delevent", event_id, u, FALSE, 0, TRUE, <<>>)
    /\ UNCHANGED <<clock, hostOffset, jobs, keyboards, calls>>

\* callbacks: user u presses button b of the keyboard posted for event_id
Rsvp(u, event_id, b) ==
    LET going == IF b[1] = "join" THEN b[2] = "yes" ELSE TRUE
        extra == IF b[1] = "join" THEN 0 ELSE b[2]
        mine == SelectSeq(players, LAMBDA r : r.event_id = event_id /\ r.user_id = u)
        old == IF mine = <<>> THEN <<>>
               ELSE <<mine[1].going = 1, mine[1].extra_count>>
    IN  /\ Len(upsert_participation(players, event_id, u, going, extra)) <= MaxRows
        /\ players' = upsert_participation(players, event_id, u, going, extra)
        /\ latest' = {l \in latest : ~(l.ev = event_id /\ l.user = u)}
                        \cup {[ev |-> event_id, user |-> u, going |-> going,
                               extra |-> extra]}
        /\ last' = Record("rsvp", event_id, u, going, extra, TRUE, old)
        /\ UNCHANGED <<clock, hostOffset, events, jobs, keyboards, calls>>

\* scheduled_create_48h, whenever the scheduler runs it
SchedTick ==
    LET now_local == utcnow + timedelta(0, TIMEZONE_SHIFT)
        wd == weekday(now_local)
        delta_days == IF wd = 2 THEN 4 - wd ELSE (0 - wd) % 7
        target == now_local + timedelta(delta_days, 0)
        event_dt == replace(target, GameHour)
        reminder_time == event_dt - timedelta(0, ReminderHours)
    IN  /\ IF wd # 2 /\ wd # 5
           THEN /\ last' = Record("sched", NoEvent, 0, FALSE, 0, TRUE, <<>>)
                /\ UNCHANGED <<events, keyboards, jobs>>
           ELSE /\ MayCreate
                /\ Len(jobs) < MaxJobs
                /\ IF InsertViolatesKey(events, NewEventId)
                   THEN /\ last' = Record("sched", NewEventId, 0, FALSE, 0, FALSE, <<>>)
                        /\ UNCHANGED <<events, keyboards, jobs>>
                   ELSE /\ events' = create_event(events, event_dt, DEFAULT_PLACE)
                        /\ keyboards' = keyboards \cup {NewEventId}
                        /\ jobs' = Append(jobs, [run_date |-> reminder_time,
                                                 event_id |-> NewEventId])
                        /\ last' = Record("sched", NewEventId, 0, FALSE, 0, TRUE, <<>>)
        /\ UNCHANGED <<clock, hostOffset, players, latest, calls>>

\* The scheduler runs a date job when its run_date, read in the scheduler's
\* time zone (the host's: AsyncIOScheduler() is given none), has come
FireTime(job) == job.run_date - hostOffset * Hour

\* send_reminder
FireReminder(i) ==
    /\ FireTime(jobs[i]) <= clock
    /\ jobs' = SubSeq(jobs, 1, i - 1) \o SubSeq(jobs, i + 1, Len(jobs))
    /\ last' = Record("reminder", jobs[i].event_id, 0, FALSE, 0,
                      get_event(events, jobs[i].event_id) # {}, <<>>)
    /\ UNCHANGED <<clock, hostOffset, events, players, keyboards, latest, calls>>

----------------------------------------------------------------------------
(* Handlers, statement by statement.  Every await hands control to the event
   loop, so other handlers run between two statements of a helper.  Each
   helper works on its own connection: its DELETE/INSERT/UPDATE opens the
   implicit transaction and takes the write lock of the database file, other
   connections read the committed tables until the commit, a second writer
   waits for the lock (sqlite3's busy timeout) and gets OperationalError when
   the wait runs out, and leaving `async with` on an exception closes the
   connection, which rolls the open transaction back. *)

CallRecord(n, op, user, ev, going, extra, place, time, pc, work) ==
    [n |-> n, op |-> op, user |-> user, ev |-> ev, going |-> going,
     extra |-> extra, place |-> place, time |-> time, pc |-> pc, work |-> work]

\* A connection has written and not committed: it holds the write lock
Locked == \E c \in calls : c.pc \in {"deleted", "inserted"}

FreeSlot == CHOOSE n \in 1..MaxCalls : \A c \in calls : c.n # n

\* A reader that sees the writer's uncommitted rows
db_view_dirty(pl, cs) ==
    IF \E c \in cs : c.pc \in {"deleted", "inserted"}
    THEN (CHOOSE c \in cs : c.pc \in {"deleted", "inserted"}).work
    ELSE pl

\* The players table as a SELECT on another connection reads it while the
\* calls cs are in flight: the committed rows
db_view(pl, cs) == pl

\* A rollback that keeps what the transaction did so far
rollback_keeps_changes(pl, work) == work

\* Closing the connection with the transaction open: the committed table stays
rollback(pl, work) == pl

\* upsert_participation, first statement: DELETE FROM players WHERE event_id=?
\* AND user_id=?
upsert_delete(pl, event_id, user_id) ==
    SelectSeq(pl, LAMBDA r : ~(r.event_id = event_id /\ r.user_id = user_id))

\* upsert_participation, second statement: INSERT INTO players
upsert_insert(pl, event_id, user_id, going, extra_count) ==
    Append(pl, PlayerRow(event_id, user_id, going, extra_count))

\* The (event, user) pairs that have or are about to get a row
Pairs(pl, cs) ==
    {<<pl[i].event_id, pl[i].user_id>> : i \in 1..Len(pl)}
        \cup {<<c.ev, c.user>> : c \in {k \in cs : k.op = "rsvp"}}

OldOf(pl, event_id, u) ==
    LET mine == SelectSeq(pl, LAMBDA r : r.event_id = event_id /\ r.user_id = u)
    IN  IF mine = <<>> THEN <<>> ELSE <<mine[1].going = 1, mine[1].extra_count>>

\* callbacks, up to the await of the first statement of upsert_participation
RsvpArrives(u, event_id, b) ==
    LET going == IF b[1] = "join" THEN b[2] = "yes" ELSE TRUE
        extra == IF b[1] = "join" THEN 0 ELSE b[2]
    IN  /\ Cardinality(calls) < MaxCalls
        /\ Cardinality(Pairs(players, calls) \cup {<<event_id, u>>}) <= MaxRows
        /\ calls' = calls \cup {CallRecord(FreeSlot, "rsvp", u, event_id, going,
                                           extra, "", 0, "begin", <<>>)}
        /\ UNCHANGED <<clock, hostOffset, events, players, jobs, keyboards,
                       latest, last>>

\* The DELETE runs: the connection takes the write lock
RsvpDelete(c) ==
    /\ c.op = "rsvp" /\ c.pc = "begin"
    /\ ~Locked
    /\ calls' = (calls \ {c}) \cup
                 {[c EXCEPT !.pc = "deleted",
                            !.work = upsert_delete(players, c.ev, c.user)]}
    /\ UNCHANGED <<clock, hostOffset, events, players, jobs, keyboards,
                   latest, last>>

\* The DELETE waits for the write lock until the busy timeout runs out:
\* OperationalError (database is locked) leaves the handler
RsvpBusy(c) ==
    /\ c.op = "rsvp" /\ c.pc = "begin"
    /\ Locked
    /\ calls' = calls \ {c}
    /\ last' = Record("rsvp locked", c.ev, c.user, c.going, c.extra, FALSE,
                      OldOf(players, c.ev, c.user))
    /\ UNCHANGED <<clock, hostOffset, events, players, jobs, keyboards, latest>>

\* The INSERT runs
RsvpInsert(c) ==
    /\ c.op = "rsvp" /\ c.pc = "deleted"
    /\ calls' = (calls \ {c}) \cup
                 {[c EXCEPT !.pc = "inserted",
                            !.work = upsert_insert(c.work, c.ev, c.user,
                                                   c.going, c.extra)]}
    /\ UNCHANGED <<clock, hostOffset, events, players, jobs, keyboards,
                   latest, last>>

\* The INSERT raises (disk full, I/O error): the exception leaves
\* `async with`, the connection closes, the transaction is rolled back
RsvpInsertFails(c) ==
    /\ c.op = "rsvp" /\ c.pc = "deleted"
    /\ calls' = calls \ {c}
    /\ players' = rollback(players, c.work)
    /\ last' = Record("rsvp", c.ev, c.user, c.going, c.extra, FALSE,
                      OldOf(players, c.ev, c.user))
    /\ UNCHANGED <<clock, hostOffset, events, jobs, keyboards, latest>>

\* db.commit()
RsvpCommit(c) ==
    /\ c.op = "rsvp" /\ c.pc = "inserted"
    /\ calls' = calls \ {c}
    /\ players' = c.work
    /\ latest' = {l \in latest : ~(l.ev = c.ev /\ l.user = c.user)}
                    \cup {[ev |-> c.ev, user |-> c.user, going |-> c.going,
                           extra |-> c.extra]}
    /\ last' = Record("rsvp", c.ev, c.user, c.going, c.extra, TRUE,
                      OldOf(players, c.ev, c.user))
    /\ UNCHANGED <<clock, hostOffset, events, jobs, keyboards>>

NextRace ==
    \/ \E u \in Admins : ~Locked /\ AddEvent(u, GameTime)
    \/ \E u \in Admins, id \in keyboards : ~Locked /\ DelEvent(u, id)
    \/ \E u \in Users, id \in keyboards, b \in CallbackData : RsvpArrives(u, id, b)
    \/ \E c \in calls : RsvpDelete(c)
    \/ \E c \in calls : RsvpBusy(c)
    \/ \E c \in calls : RsvpInsert(c)
    \/ \E c \in calls : RsvpInsertFails(c)
    \/ \E c \in calls : RsvpCommit(c)

\* The suspended /set_place and /set_time commands
Pending == {c \in calls : c.op \in {"set_place", "set_time"}}

\* A check that lets every user through
is_admin_anyone(u) == TRUE

\* message.from_user.id in ADMIN_IDS
is_admin(u) == u \in ADMIN_IDS

\* cmd_set_place up to the await of the UPDATE: the admin and usage checks,
\* and get_nearest_event, which returned nearest
SetPlaceLookup(u, new_place, nearest) ==
    /\ IF ~is_admin(u) \/ new_place = "" \/ nearest = <<>>
       THEN /\ last' = Record("set_place", NoEvent, u, FALSE, 0, FALSE, <<>>)
            /\ UNCHANGED calls
       ELSE /\ Cardinality(Pending) < MaxPending
            /\ Cardinality(calls) < MaxCalls
            /\ calls' = calls \cup {CallRecord(FreeSlot, "set_place", u,
                                               nearest[1].id, FALSE, 0,
                                               new_place, 0, "found", <<>>)}
            /\ UNCHANGED last
    /\ UNCHANGED <<clock, hostOffset, events, players, jobs, keyboards, latest>>

\* UPDATE events SET place=? WHERE id=?, commit
SetPlaceUpdate(c) ==
    /\ c.op = "set_place" /\ c.pc = "found"
    /\ ~Locked
    /\ events' = {IF r.id = c.ev THEN [r EXCEPT !.place = c.place] ELSE r :
                    r \in events}
    /\ calls' = calls \ {c}
    /\ last' = Record("set_place", c.ev, c.user, FALSE, 0, TRUE, <<>>)
    /\ UNCHANGED <<clock, hostOffset, players, jobs, keyboards, latest>>

\* cmd_set_time up to the await of the UPDATE: the admin check, strptime,
\* and get_nearest_event, which returned nearest
SetTimeLookup(u, new_dt, nearest) ==
    /\ IF ~is_admin(u) \/ new_dt = Malformed \/ nearest = <<>>
       THEN /\ last' = Record("set_time", NoEvent, u, FALSE, 0, FALSE, <<>>)
            /\ UNCHANGED calls
       ELSE /\ Cardinality(Pending) < MaxPending
            /\ Cardinality(calls) < MaxCalls
            /\ calls' = calls \cup {CallRecord(FreeSlot, "set_time", u,
                                               nearest[1].id, FALSE, 0,
                                               "", new_dt, "found", <<>>)}
            /\ UNCHANGED last
    /\ UNCHANGED <<clock, hostOffset, events, players, jobs, keyboards, latest>>

\* UPDATE events SET time=? WHERE id=?, commit
SetTimeUpdate(c) ==
    /\ c.op = "set_time" /\ c.pc = "found"
    /\ ~Locked
    /\ events' = {IF r.id = c.ev THEN [r EXCEPT !.time = isoformat(c.time)] ELSE r :
                    r \in events}
    /\ calls' = calls \ {c}
    /\ last' = Record("set_time", c.ev, c.user, FALSE, 0, TRUE, <<>>)
    /\ UNCHANGED <<clock, hostOffset, players, jobs, keyboards, latest>>

----------------------------------------------------------------------------
(* Specifications *)

Next ==
    \/ Tick
    \/ \E u \in Admins : AddEvent(u, GameTime)
    \/ \E u \in Admins, id \in keyboards : DelEvent(u, id)
    \/ \E u \in Users, id \in keyboards, b \in Buttons : Rsvp(u, id, b)
    \/ SchedTick

\* The chat within the hour of the Wednesday cron tick, on a host whose
\* local time is UTC
Spec == Init /\ [][Next]_vars

\* The scheduler over the days of a week: the bot starts on any day, at
\* 17:00 or 20:00 UTC (21:00 and 00:00 in Tbilisi)
InitSched ==
    /\ clock \in {timedelta(d, h) : d \in 0..6, h \in {17, 20}}
    /\ hostOffset \in HostOffsets
    /\ events = {}
    /\ players = <<>>
    /\ jobs = <<>>
    /\ keyboards = {}
    /\ latest = {}
    /\ last = Started
    /\ calls = {}

NextSched ==
    \/ Tick
    \/ TickDay
    \/ \E u \in Admins : AddEvent(u, GameTime)
    \/ \E u \in Admins, id \in keyboards : DelEvent(u, id)
    \/ SchedTick
    \/ \E i \in 1..Len(jobs) : FireReminder(i)
    \/ \E u \in Admins, dt \in TimeArgs, nearest \in get_nearest_event(events) :
            SetTimeLookup(u, dt, nearest)
    \/ \E c \in calls : SetTimeUpdate(c)

SpecSched == InitSched /\ [][NextSched]_vars

\* The upcoming-events query over stored tables: the database file holds up
\* to three rows of earlier runs (CREATE TABLE IF NOT EXISTS keeps them), one
\* of them inactive, each at any of EventTimes
StoredRows(id, active) ==
    {[id |-> id, time |-> isoformat(t), place |-> DEFAULT_PLACE,
      created_at |-> 0, is_active |-> active] : t \in EventTimes}

InitUpcoming ==
    /\ clock = StartClock
    /\ hostOffset = 0
    /\ \E a \in {{}} \cup {{r} : r \in StoredRows(1, 0)},
          b \in {{}} \cup {{r} : r \in StoredRows(2, 1)},
          c \in {{}} \cup {{r} : r \in StoredRows(3, 1)} : events = a \cup b \cup c
    /\ players = <<>>
    /\ jobs = <<>>
    /\ keyboards = {}
    /\ latest = {}
    /\ last = Started
    /\ calls = {}

NextUpcoming ==
    \/ Tick
    \/ \E u \in Admins, dt \in EventTimes : AddEvent(u, dt)
    \/ \E u \in Admins, id \in EventIds(events) : DelEvent(u, id)

SpecUpcoming == InitUpcoming /\ [][NextUpcoming]_vars

NextAdmin ==
    \/ Tick
    \/ \E u \in Users, dt \in EventTimes : AddEvent(u, dt)
    \/ \E u \in Users, id \in keyboards \cup {UnknownId} : DelEvent(u, id)
    \/ \E u \in Users, place \in Places, nearest \in get_nearest_event(events) :
            SetPlaceLookup(u, place, nearest)
    \/ \E c \in calls : SetPlaceUpdate(c)
    \/ \E u \in Users, dt \in TimeArgs, nearest \in get_nearest_event(events) :
            SetTimeLookup(u, dt, nearest)
    \/ \E c \in calls : SetTimeUpdate(c)
    \/ \E u \in Users \ Admins, id \in keyboards : Rsvp(u, id, <<"join", "yes">>)
    \/ SchedTick

\* The commands of admins and of other users, the two statements of
\* /set_place and /set_time apart
SpecAdmin == Init /\ [][NextAdmin]_vars

\* Button presses on one event racing each other within one clock reading,
\* statement by statement
SpecRace == Init /\ [][NextRace]_vars

----------------------------------------------------------------------------
(* Properties *)

RowsOf(pl, event_id, user_id) ==
    SelectSeq(pl, LAMBDA r : r.event_id = event_id /\ r.user_id = user_id)

OtherRows(pl, event_id, user_id) ==
    SelectSeq(pl, LAMBDA r : ~(r.event_id = event_id /\ r.user_id = user_id))

\* C1: the players table never holds two rows with the same event id and
\* user id, whatever RSVPs, creations, deletions and scheduler ticks happened.
C1_OneRowPerUserAndEvent ==
    \A i, j \in 1..Len(players) :
        (/\ players[i].event_id = players[j].event_id
         /\ players[i].user_id = players[j].user_id) => i = j

\* A user has pressed a button again on an event while another row exists
C1_Witness ==
    /\ last.op = "rsvp"
    /\ last.old # <<>>
    /\ Len(players) = 2

\* C2: the row of a user for an event carries exactly the going flag and the
\* extra count of that user's latest RSVP action on the event, and there is
\* exactly one such row: earlier actions leave no trace (extra 2 then extra 1
\* gives 1, not 3).
C2_RowIsLatestAction ==
    \A l \in latest :
        LET mine == RowsOf(players, l.ev, l.user)
        IN  /\ Len(mine) = 1
            /\ mine[1].going = (IF l.going THEN 1 ELSE 0)
            /\ mine[1].extra_count = l.extra

\* Extra 1 was pressed by a user whose row said extra 2
C2_Witness ==
    /\ last.op = "rsvp"
    /\ last.extra = 1
    /\ last.old = <<TRUE, 2>>
    /\ \E i \in 1..Len(players) :
        /\ players[i].event_id = last.ev
        /\ players[i].user_id = last.user
        /\ players[i].extra_count = 1

\* C3: an RSVP that repeats the arguments of the user's previous RSVP on the
\* event leaves exactly one row for that event and user, with the going flag
\* and extra count of the second call, and leaves all other rows as they were
\* after the first.
C3_UpsertIdempotent ==
    [][(/\ last'.op = "rsvp"
        /\ [ev |-> last'.ev, user |-> last'.user, going |-> last'.going,
            extra |-> last'.extra] \in latest
        /\ (last' # last \/ players' # players))
       => /\ Len(RowsOf(players', last'.ev, last'.user)) = 1
          /\ RowsOf(players', last'.ev, last'.user)[1].going
                = (IF last'.going THEN 1 ELSE 0)
          /\ RowsOf(players', last'.ev, last'.user)[1].extra_count = last'.extra
          /\ OtherRows(players', last'.ev, last'.user)
                = OtherRows(players, last'.ev, last'.user)]_vars

\* The same button was pressed twice by a user while another row exists
C3_Witness ==
    /\ last.op = "rsvp"
    /\ last.old = <<last.going, last.extra>>
    /\ Len(players) = 2
    /\ \E i \in 1..Len(players) : players[i].event_id # last.ev

Tagged(text, tag) == SelectSeq(text, LAMBDA line : line[1] = tag)

Range(f) == {f[i] : i \in DOMAIN f}

NameOf(u) == DisplayName([username |-> username(u), full_name |-> full_name(u)])

C8_ReRsvpMovesToEnd ==
    /\ \A e \in keyboards : \A rows \in list_players(players, e) :
            \A i, j \in 1..Len(rows) : i < j => rows[i].joined_at <= rows[j].joined_at
    /\ (last.op = "rsvp" /\ last.old # <<>>)
         => \A rows \in list_players(players, last.ev) :
                rows[Len(rows)].user_id = last.user

\* C9: an RSVP for an event id that is not in the events table fails and
\* leaves the players table unchanged.
C9_RsvpOnMissingEventRejected ==
    [][(/\ last'.op = "rsvp"
        /\ (last' # last \/ players' # players)
        /\ last'.ev \notin EventIds(events))
       => (~last'.ok /\ players' = players)]_vars

\* C10: every creation (by /addevent from an admin or by the scheduler) goes
\* through and adds exactly one active event, whose id was never given to an
\* event before, deleted ones included.
C10_CreationAddsFreshEvent ==
    [][(/\ last'.op \in {"addevent", "sched"}
        /\ last'.ev # NoEvent
        /\ last' # last)
       => /\ last'.ok
          /\ last'.ev \notin keyboards
          /\ \E r \in events' :
                /\ r.id = last'.ev
                /\ r.is_active = 1
                /\ r \notin events
                /\ events' = events \cup {r}]_vars

\* C4: whatever the events table holds, every result of get_upcoming_events
\* holds only active events at or after local now, in ascending time order,
\* at most limit of them, and leaves a qualifying event out only when limit
\* events at or before it are returned; get_nearest_event returns the first
\* of that sequence, or None when no event qualifies.
C4_UpcomingFilter ==
    LET now_local == utcnow + timedelta(0, TIMEZONE_SHIFT)
        Q == {r \in events : r.is_active = 1 /\ fromisoformat(r.time) >= now_local}
    IN  /\ \A limit \in Limits : \A res \in get_upcoming_events(events, limit) :
            /\ Len(res) <= limit
            /\ \A i \in 1..Len(res) : \E r \in Q :
                    /\ r.id = res[i].id
                    /\ fromisoformat(r.time) = res[i].time
                    /\ r.place = res[i].place
            /\ \A i, j \in 1..Len(res) :
                    i < j => (res[i].time <= res[j].time /\ res[i].id # res[j].id)
            /\ \A r \in Q : r.id \notin {res[i].id : i \in 1..Len(res)}
                    => /\ Len(res) = limit
                       /\ \A i \in 1..Len(res) : res[i].time <= fromisoformat(r.time)
        /\ \A n \in get_nearest_event(events) :
            IF Q = {} THEN n = <<>>
            ELSE /\ Len(n) = 1
                 /\ \E res \in get_upcoming_events(events, 10) : n[1] = res[1]

\* The table holds an inactive future event, an active event at exactly local
\* now, an active past event and a later active event that limit 1 cuts off
C4_Witness ==
    LET now_local == utcnow + timedelta(0, TIMEZONE_SHIFT)
    IN  /\ \E r \in events : r.is_active = 0 /\ fromisoformat(r.time) > now_local
        /\ \E r \in events : r.is_active = 1 /\ fromisoformat(r.time) = now_local
        /\ \E r \in events : r.is_active = 1 /\ fromisoformat(r.time) < now_local
        /\ \E r \in events : r.is_active = 1 /\ fromisoformat(r.time) > now_local
        /\ \E res \in get_upcoming_events(events, 1) : Len(res) = 1

\* C5: a scheduler tick on a local Wednesday creates exactly one event, on the
\* Friday two days later at 21:00:00; on a local Saturday exactly one event, on
\* the Monday two days later at 21:00:00; on any other weekday it changes no
\* stored state and schedules no reminder.
C5_RecurrenceRule ==
    [][(/\ last'.op = "sched"
        /\ (last' # last \/ events' # events))
       => LET now_local == utcnow + timedelta(0, TIMEZONE_SHIFT)
              wd == weekday(now_local)
              target == (now_local \div Day + 2) * Day + 21 * Hour
          IN  IF wd = 2 \/ wd = 5
              THEN /\ weekday(target) = (IF wd = 2 THEN 4 ELSE 0)
                   /\ \E r \in events' :
                        /\ r \notin events
                        /\ events' = events \cup {r}
                        /\ fromisoformat(r.time) = target
              ELSE UNCHANGED <<events, players, jobs, keyboards>>]_vars

\* C6: right after the scheduler created an event at local time T, exactly one
\* reminder job is pending for it, and the job fires when the local (UTC+4)
\* clock shows T - 3 hours.
C6_ReminderThreeHoursBefore ==
    (last.op = "sched" /\ last.ok /\ last.ev # NoEvent)
        => /\ Len(SelectSeq(jobs, LAMBDA job : job.event_id = last.ev)) = 1
           /\ \A i \in 1..Len(jobs) : \A e \in get_event(events, last.ev) :
                jobs[i].event_id = last.ev
                    => FireTime(jobs[i]) + timedelta(0, TIMEZONE_SHIFT)
                         = fromisoformat(e.time) - timedelta(0, 3)

\* C11: no row of the players table ever has a negative extra count, and a
\* callback that carries a negative extra count is rejected and stores nothing.
C11_ExtraCountNonNegative ==
    /\ \A i \in 1..Len(players) : players[i].extra_count >= 0
    /\ (last.op = "rsvp" /\ last.extra < 0) => ~last.ok

\* C12: a step of /addevent, /delevent, /set_place or /set_time sent by a user
\* outside the admin set leaves the events table, the players table, the
\* pending reminder jobs and the suspended commands as they were, whatever the
\* arguments; an RSVP of such a user does change the players table.
C12_NonAdminCommandsChangeNothing ==
    [][(/\ last' # last
        /\ last'.op \in {"addevent", "delevent", "set_place", "set_time"}
        /\ last'.user \notin ADMIN_IDS)
       => UNCHANGED <<events, players, jobs, calls>>]_vars

\* A non-admin has sent /set_time while an upcoming event, a row of the
\* players table written by that user's RSVP and a reminder job exist
C12_Witness ==
    /\ last.op = "set_time"
    /\ last.user \notin ADMIN_IDS
    /\ get_nearest_event(events) # {<<>>}
    /\ \E i \in 1..Len(players) : players[i].user_id = last.user
    /\ jobs # <<>>

\* C13: an admin's /delevent e never fails; when e is not in the events table
\* (never created, or deleted before) it changes neither table; running
\* delete_event(e) once more after it changes nothing; and in all cases the
\* other events and the rows of the other events stay as they were.
C13_DeleteIdempotent ==
    [][(/\ last'.op = "delevent"
        /\ last'.user \in ADMIN_IDS
        /\ (last' # last \/ events' # events \/ players' # players))
       => /\ last'.ok
          /\ last'.ev \notin EventIds(events)
                => (events' = events /\ players' = players)
          /\ delete_event_events(events', last'.ev) = events'
          /\ delete_event_players(players', last'.ev) = players'
          /\ {r \in events' : r.id # last'.ev} = {r \in events : r.id # last'.ev}
          /\ SelectSeq(players', LAMBDA r : r.event_id # last'.ev)
                = SelectSeq(players, LAMBDA r : r.event_id # last'.ev)]_vars

\* C14: the DELETE and the INSERT of upsert_participation take effect
\* together.  Whatever RSVPs are in flight, in whatever interleaving of their
\* statements, every result list_players can read holds exactly one row for
\* each user who has RSVPed to the event, and that row carries the values of
\* the RSVP of that user committed last: no reader sees the old row gone and
\* the new one not yet there, and two racing RSVPs of one user leave one row,
\* of one of the two.
C14_UpsertAtomic ==
    \A l \in latest : \A rows \in list_players(db_view(players, calls), l.ev) :
        LET mine == SelectSeq(rows, LAMBDA r : r.user_id = l.user)
        IN  /\ Len(mine) = 1
            /\ mine[1].going = (IF l.going THEN 1 ELSE 0)
            /\ mine[1].extra_count = l.extra

\* Two RSVPs of one user on one event, with different values, are in flight;
\* the user had a row, and the DELETE of one of them has run
C14_Witness ==
    \E c1, c2 \in calls :
        /\ c1.op = "rsvp" /\ c2.op = "rsvp"
        /\ c1.n # c2.n
        /\ c1.ev = c2.ev /\ c1.user = c2.user
        /\ <<c1.going, c1.extra>> # <<c2.going, c2.extra>>
        /\ c1.pc = "deleted"
        /\ c1.work # players
        /\ \E l \in latest : l.ev = c1.ev /\ l.user = c1.user

\* C15: when the INSERT of upsert_participation fails after its DELETE has
\* run, the RSVP fails as a whole: both tables are as before the RSVP, and
\* the user's earlier row for the event, if there was one, is still there.
C15_FailedInsertKeepsOldRow ==
    [][\A c \in calls :
        (/\ c.op = "rsvp" /\ c.pc = "deleted"
         /\ \A d \in calls' : d.n # c.n)
        => /\ ~last'.ok
           /\ players' = players
           /\ events' = events
           /\ RowsOf(db_view(players', calls'), c.ev, c.user)
                = RowsOf(players, c.ev, c.user)]_vars

\* An RSVP of a user who had a row failed at its INSERT; the row is there
C15_Witness ==
    /\ last.op = "rsvp"
    /\ ~last.ok
    /\ last.old # <<>>
    /\ Len(RowsOf(players, last.ev, last.user)) = 1
    /\ <<RowsOf(players, last.ev, last.user)[1].going = 1,
         RowsOf(players, last.ev, last.user)[1].extra_count>> = last.old

\* C16: right after delete_event(e) no row of the players table has event id
\* e, and at all times every row of the players table has the id of an event
\* that is in the events table, also after button presses on the old message
\* of a deleted event and when a delete runs between the statements of RSVPs.
C16_NoOrphanRows ==
    /\ (last.op = "delevent" /\ last.ok)
            => \A i \in 1..Len(players) : players[i].event_id # last.ev
    /\ \A i \in 1..Len(players) : players[i].event_id \in EventIds(events)

\* C17: the UPDATE of an admin's /set_place or /set_time changes the place,
\* respectively the time, of an event that is the nearest upcoming one when
\* the UPDATE runs, and nothing else: the other events, the other fields of
\* that event, the players table and the reminder jobs stay as they were,
\* also when events were created or deleted since the command looked the
\* nearest event up.  With no upcoming event at that moment, and when the
\* command is turned down (no upcoming event, malformed time), nothing
\* stored changes.
C17_SetChangesOnlyNearest ==
    [][/\ \A c \in Pending :
            (\A d \in calls' : d.n # c.n)
            => /\ UNCHANGED <<players, jobs>>
               /\ IF get_nearest_event(events) = {<<>>}
                  THEN events' = events
                  ELSE \E n \in get_nearest_event(events) :
                        /\ n # <<>>
                        /\ events' =
                            {IF r.id # n[1].id THEN r
                             ELSE IF c.op = "set_place"
                             THEN [r EXCEPT !.place = c.place]
                             ELSE [r EXCEPT !.time = isoformat(c.time)] :
                             r \in events}
       /\ (/\ last' # last
           /\ last'.op \in {"set_place", "set_time"}
           /\ ~last'.ok)
            => UNCHANGED <<events, players, jobs, calls>>]_vars

\* C18: every pending reminder job carries the id of an event that is in the
\* events table, and its run date is that event's current time minus three
\* hours; a reminder that fires finds its event.  This holds after any
\* scheduler ticks, /set_time and /delevent commands.
C18_RemindersFollowEvents ==
    /\ \A i \in 1..Len(jobs) : \E e \in events :
            /\ e.id = jobs[i].event_id
            /\ jobs[i].run_date
                    = fromisoformat(e.time) - timedelta(0, ReminderHours)
    /\ last.op = "reminder" => last.ok

\* C19: after any presses of the keyboard's buttons, every row of the players
\* table that says not going has extra count 0, and the row of a user who
\* presses Going after +N says going with extra count 0.
C19_NotGoingHasNoGuests ==
    /\ \A i \in 1..Len(players) :
            players[i].going = 0 => players[i].extra_count = 0
    /\ (/\ last.op = "rsvp" /\ last.going /\ last.extra = 0
        /\ last.old # <<>> /\ last.old[2] > 0)
            => \E i \in 1..Len(players) :
                    /\ players[i].event_id = last.ev
                    /\ players[i].user_id = last.user
                    /\ players[i].going = 1
                    /\ players[i].extra_count = 0

\* A user pressed Going after +3 while another user's row says not going
C19_Witness ==
    /\ last.op = "rsvp" /\ last.going /\ last.extra = 0
    /\ last.old = <<TRUE, 3>>
    /\ \E l \in latest : l.user # last.user /\ ~l.going
    /\ \E i \in 1..Len(players) :
            players[i].user_id # last.user /\ players[i].going = 0

====
